---- MODULE Spec2Model ----
(***************************************************************************)
(* The job runner of .config/yadm/install.py: run_jobs_display drives a    *)
(* list of CommandJobs through execute_display, which spawns one child     *)
(* process per command and drains its two pipes with two reader threads.   *)
(*                                                                         *)
(* Conventions of the model:                                               *)
(*  - a command is identified by <<j, k>>, the k-th command of the j-th    *)
(*    job; a job is the record [commands |-> its list of commands];        *)
(*  - rich numbers its tasks from 0, the model from 1: task j is the task  *)
(*    of jobs[j] and task Len(jobs)+1 is the "Total" task;                 *)
(*  - a line of child output is <<command, stream, n>>: the n-th line the  *)
(*    child of that command wrote to that stream.  A line is a whole line  *)
(*    of valid text, which readline() returns and decode() and             *)
(*    Text.append() carry over unchanged;                                  *)
(*  - the write ends of the two pipes are held by the child alone, so a    *)
(*    pipe is at end-of-file exactly when the child has exited and the     *)
(*    pipe has been drained;                                               *)
(*  - the Live display only reads the buffers and the tasks; it is not a   *)
(*    process of the model;                                                *)
(*  - process.wait() is the one point where the main thread is             *)
(*    interrupted: it is the call the try block of execute_display guards; *)
(*  - Python's None is the empty sequence, a value v is <<v>>.             *)
(***************************************************************************)
EXTENDS Integers, Sequences, FiniteSets, TLC

\* Bounds of the model.
MaxJobs == 2
MaxCmds == 2
MaxLines == 2
MaxOut == 3
MaxReqLines == 2

\* The exit codes a child may end with.
ExitCodes == {0, 1}

Streams == {"stdout", "stderr"}

VARIABLES
    jobs,           \* the argument of run_jobs_display
    pc,             \* position of the main thread
    tasks,          \* progress.tasks: [total, completed, finished] per task
    current_task,   \* id of the task picked by the loop body (0: none yet)
    text,           \* the two Text buffers, text.stdout and text.stderr
    process,        \* the Popen object and the child behind it
    pipe,           \* per stream, the lines written and not yet read
    written,        \* per stream, every line the child has written (history)
    thread,         \* per stream, the reader thread: state and local `line`
    exc,            \* the exception in flight inside execute_display
    error,          \* the exception that left run_jobs_display
    started,        \* the commands handed to execute_display, in order (history)
    sudo_calls,     \* the execute() calls of ensure_sudo: command and return code
    exit_code,      \* the exit code of the program, None while it runs
    call,           \* one call of execute(): its arguments, its child, its outcome
    present,        \* per entry of REQUIREMENTS visited, whether its file exists
    path_file       \* the lines of the file read last, None when it was missing

\* The variables the job runner leaves alone.
others == <<sudo_calls, exit_code, call, present, path_file>>

vars == <<jobs, pc, tasks, current_task, text, process, pipe, written, thread,
          exc, error, started, sudo_calls, exit_code, call, present, path_file>>

stdout_text == text["stdout"]
stderr_text == text["stderr"]
stdout_thread == thread["stdout"]
stderr_thread == thread["stderr"]

----------------------------------------------------------------------------
\* Job lists

\* CommandJob: only the command list decides the run.
CommandJob(j, n) == [commands |-> [k \in 1..n |-> <<j, k>>]]

JobLists ==
    UNION { { [j \in 1..n |-> CommandJob(j, c[j])] : c \in [1..n -> 0..MaxCmds] }
            : n \in 0..MaxJobs }

RECURSIVE Flatten(_)
\* jobs in list order, commands in list order within each job
Flatten(js) ==
    IF js = <<>> THEN <<>>
    ELSE Flatten(SubSeq(js, 1, Len(js) - 1)) \o js[Len(js)].commands

RECURSIVE SumTotals(_, _)
SumTotals(ts, n) == IF n = 0 THEN 0 ELSE SumTotals(ts, n - 1) + ts[n].total

RECURSIVE SumCompleted(_, _)
SumCompleted(ts, n) == IF n = 0 THEN 0 ELSE SumCompleted(ts, n - 1) + ts[n].completed

----------------------------------------------------------------------------
\* rich.progress

\* Progress.add_task: a new task is not finished, whatever its total.
add_task(total) == [total |-> total, completed |-> 0, finished |-> FALSE]

\* The end of Progress.update and Progress.advance: a task becomes finished
\* when an update finds completed >= total.
MarkFinished(t) ==
    IF t.completed >= t.total /\ ~t.finished THEN [t EXCEPT !.finished = TRUE] ELSE t

\* Progress.update(task_id, description=...)
update(ts, id) == [ts EXCEPT ![id] = MarkFinished(@)]

\* Progress.advance(task_id)
advance(ts, id) ==
    [ts EXCEPT ![id] = MarkFinished([@ EXCEPT !.completed = @ + 1])]

\* Progress.finished: every task, the Total task included, is finished.
progress_finished(ts) == \A id \in 1..Len(ts) : ts[id].finished

total_task_id == Len(jobs) + 1

\* The tasks the generator of the loop body yields.
Unfinished(ts) == { id \in 1..Len(ts) : id # total_task_id /\ ~ts[id].finished }

\* Mutant of FirstUnfinished: the search runs from the end of the task list.
LastUnfinished(ts) == CHOOSE id \in Unfinished(ts) : \A o \in Unfinished(ts) : id >= o

\* next(...): the first of them in the order of progress.tasks.
FirstUnfinished(ts) == CHOOSE id \in Unfinished(ts) : \A o \in Unfinished(ts) : id <= o

----------------------------------------------------------------------------
\* Values

None == <<>>
NoProcess == [state |-> "none", args |-> None, returncode |-> None,
              status |-> None, sigterm |-> FALSE]
NoError == [kind |-> "none", cmd |-> None, returncode |-> None,
            output |-> <<>>, stderr |-> <<>>]
NewThread == [state |-> "unstarted", line |-> None]

\* Mutant of CalledProcessError: the two captured streams are exchanged.
CalledProcessErrorSwapped(p, out, err) ==
    [kind |-> "CalledProcessError", cmd |-> p.args, returncode |-> p.returncode,
     output |-> err, stderr |-> out]

\* subprocess.CalledProcessError(returncode, cmd, output, stderr)
CalledProcessError(p, out, err) ==
    [kind |-> "CalledProcessError", cmd |-> p.args, returncode |-> p.returncode,
     output |-> out, stderr |-> err]

Raise(kind) == [NoError EXCEPT !.kind = kind]

\* Nothing has run yet.
Fresh ==
    /\ tasks = <<>>
    /\ current_task = 0
    /\ text = [s \in Streams |-> <<>>]
    /\ process = NoProcess
    /\ pipe = [s \in Streams |-> <<>>]
    /\ written = [s \in Streams |-> <<>>]
    /\ thread = [s \in Streams |-> NewThread]
    /\ exc = "none"
    /\ error = NoError
    /\ started = <<>>
    /\ sudo_calls = <<>>
    /\ exit_code = None
    /\ present = <<>>
    /\ path_file = None

\* run_jobs_display is called with any job list.
Init ==
    /\ jobs \in JobLists
    /\ pc = "start"
    /\ call = None
    /\ Fresh

----------------------------------------------------------------------------
\* run_jobs_display

\* Mutant of Setup: the titles are not looked at, so an empty job list gets
\* its (single, Total) task like any other.
SetupNoMax ==
    /\ pc = "start"
    /\ LET jobtasks == [j \in 1..Len(jobs) |-> add_task(Len(jobs[j].commands))]
       IN tasks' = Append(jobtasks, add_task(SumTotals(jobtasks, Len(jobtasks))))
    /\ text' = [s \in Streams |-> <<>>]
    /\ pc' = "loop"
    /\ UNCHANGED <<jobs, current_task, process, pipe, written, thread, exc, error,
                   started>>
    /\ UNCHANGED others

\* Lines 111-131: max() over the titles, the tasks, the two buffers.
Setup ==
    /\ pc = "start"
    /\ IF jobs = <<>>
       THEN /\ pc' = "raised"
            /\ error' = Raise("ValueError")
            /\ UNCHANGED <<tasks, text>>
       ELSE /\ LET jobtasks == [j \in 1..Len(jobs) |-> add_task(Len(jobs[j].commands))]
               IN tasks' = Append(jobtasks, add_task(SumTotals(jobtasks, Len(jobtasks))))
            /\ text' = [s \in Streams |-> <<>>]
            /\ pc' = "loop"
            /\ UNCHANGED error
    /\ UNCHANGED <<jobs, current_task, process, pipe, written, thread, exc, started>>
    /\ UNCHANGED others

\* Line 164: while not progress.finished
LoopTest ==
    /\ pc = "loop"
    /\ pc' = IF progress_finished(tasks) THEN "done" ELSE "select"
    /\ UNCHANGED <<jobs, tasks, current_task, text, process, pipe, written, thread,
                   exc, error, started>>
    /\ UNCHANGED others

\* Lines 166-177: the current task, job and command, and the status update.
Select ==
    /\ pc = "select"
    /\ IF Unfinished(tasks) = {}
       THEN /\ pc' = "raised"
            /\ error' = Raise("StopIteration")
            /\ UNCHANGED <<tasks, current_task>>
       ELSE LET id == FirstUnfinished(tasks)
            IN /\ current_task' = id
               /\ IF tasks[id].completed + 1 \in DOMAIN jobs[id].commands
                  THEN /\ tasks' = update(tasks, id)
                       /\ pc' = "execute_display"
                       /\ UNCHANGED error
                  ELSE /\ pc' = "raised"
                       /\ error' = Raise("IndexError")
                       /\ UNCHANGED tasks
    /\ UNCHANGED <<jobs, text, process, pipe, written, thread, exc, started>>
    /\ UNCHANGED others

current_job == jobs[current_task]
\* commands[current_task.completed], the list being indexed from 0
current_command == current_job.commands[tasks[current_task].completed + 1]

\* Mutant of SetLength: only the stdout buffer is emptied.
SetLengthStdoutOnly ==
    /\ pc = "set_length"
    /\ text' = [text EXCEPT !["stdout"] = <<>>]
    /\ pc' = "advance"
    /\ UNCHANGED <<jobs, tasks, current_task, process, pipe, written, thread,
                   exc, error, started>>
    /\ UNCHANGED others

\* Lines 181-182: both buffers are emptied after the command.
SetLength ==
    /\ pc = "set_length"
    /\ text' = [s \in Streams |-> <<>>]
    /\ pc' = "advance"
    /\ UNCHANGED <<jobs, tasks, current_task, process, pipe, written, thread,
                   exc, error, started>>
    /\ UNCHANGED others

\* Mutant of AdvanceJob: the task advanced is the first of the list, not the
\* current one.
AdvanceJobFirstTask ==
    /\ pc = "advance"
    /\ tasks' = advance(tasks, 1)
    /\ pc' = "advance_total"
    /\ UNCHANGED <<jobs, current_task, text, process, pipe, written, thread,
                   exc, error, started>>
    /\ UNCHANGED others

\* Lines 185-188: advance the job's task; a finished task gets its message.
AdvanceJob ==
    /\ pc = "advance"
    /\ LET adv == advance(tasks, current_task)
       IN tasks' = IF adv[current_task].finished THEN update(adv, current_task) ELSE adv
    /\ pc' = "advance_total"
    /\ UNCHANGED <<jobs, current_task, text, process, pipe, written, thread,
                   exc, error, started>>
    /\ UNCHANGED others

\* Mutant of AdvanceTotal: the Total task is left as it is.
AdvanceTotalSkipped ==
    /\ pc = "advance_total"
    /\ pc' = "loop"
    /\ UNCHANGED <<jobs, tasks, current_task, text, process, pipe, written, thread,
                   exc, error, started>>
    /\ UNCHANGED others

\* Line 191: advance the Total task.
AdvanceTotal ==
    /\ pc = "advance_total"
    /\ tasks' = advance(tasks, total_task_id)
    /\ pc' = "loop"
    /\ UNCHANGED <<jobs, current_task, text, process, pipe, written, thread,
                   exc, error, started>>
    /\ UNCHANGED others

----------------------------------------------------------------------------
\* execute_display

\* Lines 83-88: the child, its two pipes, the two reader threads, started.
Popen ==
    /\ pc = "execute_display"
    /\ process' = [NoProcess EXCEPT !.state = "running", !.args = <<current_command>>]
    /\ pipe' = [s \in Streams |-> <<>>]
    /\ written' = [s \in Streams |-> <<>>]
    /\ thread' = [s \in Streams |-> [state |-> "readline", line |-> None]]
    /\ started' = Append(started, current_command)
    /\ exc' = "none"
    /\ pc' = "wait"
    /\ UNCHANGED <<jobs, tasks, current_task, text, error>>
    /\ UNCHANGED others

\* The child writes one more line to one of its streams.
ChildWrite(s) ==
    /\ process.state = "running"
    /\ Len(written[s]) < MaxLines
    /\ LET line == <<process.args[1], s, Len(written[s]) + 1>>
       IN /\ written' = [written EXCEPT ![s] = Append(@, line)]
          /\ pipe' = [pipe EXCEPT ![s] = Append(@, line)]
    /\ UNCHANGED <<jobs, pc, tasks, current_task, text, process, thread, exc,
                   error, started>>
    /\ UNCHANGED others

\* The child ends, on its own or from the signal it was sent, closing the
\* write ends of its pipes.
ChildExit(code) ==
    /\ process.state = "running"
    /\ process' = [process EXCEPT !.state = "exited", !.status = <<code>>]
    /\ UNCHANGED <<jobs, pc, tasks, current_task, text, pipe, written, thread,
                   exc, error, started>>
    /\ UNCHANGED others

\* Mutant of ReadLine: an empty pipe is taken for end-of-file.
ReadLineNoBlock(s) ==
    /\ thread[s].state = "readline"
    /\ IF pipe[s] # <<>>
       THEN /\ thread' = [thread EXCEPT ![s] = [state |-> "append", line |-> <<Head(pipe[s])>>]]
            /\ pipe' = [pipe EXCEPT ![s] = Tail(@)]
       ELSE /\ thread' = [thread EXCEPT ![s] = [state |-> "done", line |-> None]]
            /\ UNCHANGED pipe
    /\ UNCHANGED <<jobs, pc, tasks, current_task, text, process, written, exc,
                   error, started>>
    /\ UNCHANGED others

\* Mutant of ReadLine: the end of the child does not end the stream, so the
\* read of an empty pipe blocks for good.
ReadLineNoEof(s) ==
    /\ thread[s].state = "readline"
    /\ pipe[s] # <<>>
    /\ thread' = [thread EXCEPT ![s] = [state |-> "append", line |-> <<Head(pipe[s])>>]]
    /\ pipe' = [pipe EXCEPT ![s] = Tail(@)]
    /\ UNCHANGED <<jobs, pc, tasks, current_task, text, process, written, exc,
                   error, started>>
    /\ UNCHANGED others

\* Line 78: stream.readline() returns the next line, or nothing at
\* end-of-file (lines 79-80: the thread ends); it blocks on an empty pipe
\* whose write end is open.
ReadLine(s) ==
    /\ thread[s].state = "readline"
    /\ IF pipe[s] # <<>>
       THEN /\ thread' = [thread EXCEPT ![s] = [state |-> "append", line |-> <<Head(pipe[s])>>]]
            /\ pipe' = [pipe EXCEPT ![s] = Tail(@)]
       ELSE /\ process.state = "exited"
            /\ thread' = [thread EXCEPT ![s] = [state |-> "done", line |-> None]]
            /\ UNCHANGED pipe
    /\ UNCHANGED <<jobs, pc, tasks, current_task, text, process, written, exc,
                   error, started>>
    /\ UNCHANGED others

\* Line 81: text.append(line.decode())
AppendLine(s) ==
    /\ thread[s].state = "append"
    /\ text' = [text EXCEPT ![s] = Append(@, thread[s].line[1])]
    /\ thread' = [thread EXCEPT ![s] = [state |-> "readline", line |-> None]]
    /\ UNCHANGED <<jobs, pc, tasks, current_task, process, pipe, written, exc,
                   error, started>>
    /\ UNCHANGED others

\* Line 90: process.wait() returns once the child has exited.
Wait ==
    /\ pc = "wait"
    /\ process.state = "exited"
    /\ process' = [process EXCEPT !.returncode = process.status]
    /\ pc' = "join_stdout"
    /\ UNCHANGED <<jobs, tasks, current_task, text, pipe, written, thread, exc,
                   error, started>>
    /\ UNCHANGED others

\* Mutant of WaitInterrupted: the handler re-raises with no finally block
\* behind it, so the joins are skipped.
WaitInterruptedNoJoin ==
    /\ pc = "wait"
    /\ process' = IF process.state = "running"
                  THEN [process EXCEPT !.sigterm = TRUE]
                  ELSE [process EXCEPT !.returncode = process.status]
    /\ exc' = "KeyboardInterrupt"
    /\ error' = Raise("KeyboardInterrupt")
    /\ pc' = "raised"
    /\ UNCHANGED <<jobs, tasks, current_task, text, pipe, written, thread, started>>
    /\ UNCHANGED others

\* Lines 90-93: process.wait() is interrupted; the handler calls
\* process.terminate() and re-raises.  terminate() polls the child first: a
\* child that has gone is reaped (its return code is set) and sent nothing,
\* a running child is sent SIGTERM.
WaitInterrupted ==
    /\ pc = "wait"
    /\ process' = IF process.state = "running"
                  THEN [process EXCEPT !.sigterm = TRUE]
                  ELSE [process EXCEPT !.returncode = process.status]
    /\ exc' = "KeyboardInterrupt"
    /\ pc' = "join_stdout"
    /\ UNCHANGED <<jobs, tasks, current_task, text, pipe, written, thread,
                   error, started>>
    /\ UNCHANGED others

\* Mutant of Joined: join() returns without waiting for the thread.
JoinedNoWait(s) == thread[s].state # "unstarted"

\* Thread.join() returns once the thread has ended.
Joined(s) == thread[s].state = "done"

\* Line 95: stdout_thread.join()
JoinStdout ==
    /\ pc = "join_stdout"
    /\ Joined("stdout")
    /\ pc' = "join_stderr"
    /\ UNCHANGED <<jobs, tasks, current_task, text, process, pipe, written, thread,
                   exc, error, started>>
    /\ UNCHANGED others

\* Mutant of JoinStderr: the stderr thread is not joined.
JoinStderrSkipped ==
    /\ pc = "join_stderr"
    /\ IF exc # "none"
       THEN /\ pc' = "raised"
            /\ error' = Raise(exc)
       ELSE /\ pc' = "returncode"
            /\ UNCHANGED error
    /\ UNCHANGED <<jobs, tasks, current_task, text, process, pipe, written, thread,
                   exc, started>>
    /\ UNCHANGED others

\* Line 96: stderr_thread.join(); leaving the finally block re-raises the
\* exception in flight, which nothing in run_jobs_display catches.
JoinStderr ==
    /\ pc = "join_stderr"
    /\ Joined("stderr")
    /\ IF exc # "none"
       THEN /\ pc' = "raised"
            /\ error' = Raise(exc)
       ELSE /\ pc' = "returncode"
            /\ UNCHANGED error
    /\ UNCHANGED <<jobs, tasks, current_task, text, process, pipe, written, thread,
                   exc, started>>
    /\ UNCHANGED others

\* Line 98: if process.returncode
Failed(p) == p.returncode # None /\ p.returncode[1] # 0

\* Mutant of CheckReturncode: the return code is not looked at.
CheckReturncodeIgnored ==
    /\ pc = "returncode"
    /\ pc' = "set_length"
    /\ UNCHANGED <<jobs, tasks, current_task, text, process, pipe, written, thread,
                   exc, error, started>>
    /\ UNCHANGED others

\* Lines 98-104: a non-zero return code raises CalledProcessError with the
\* plain text of the two buffers; otherwise execute_display returns.
CheckReturncode ==
    /\ pc = "returncode"
    /\ IF Failed(process)
       THEN /\ pc' = "raised"
            /\ error' = CalledProcessError(process, stdout_text, stderr_text)
       ELSE /\ pc' = "set_length"
            /\ UNCHANGED error
    /\ UNCHANGED <<jobs, tasks, current_task, text, process, pipe, written, thread,
                   exc, started>>
    /\ UNCHANGED others

----------------------------------------------------------------------------

Next ==
    \/ Setup
    \/ LoopTest
    \/ Select
    \/ Popen
    \/ \E s \in Streams : ChildWrite(s)
    \/ \E code \in ExitCodes : ChildExit(code)
    \/ \E s \in Streams : ReadLine(s)
    \/ \E s \in Streams : AppendLine(s)
    \/ Wait
    \/ WaitInterrupted
    \/ JoinStdout
    \/ JoinStderr
    \/ CheckReturncode
    \/ SetLength
    \/ AdvanceJob
    \/ AdvanceTotal

Spec == Init /\ [][Next]_vars

----------------------------------------------------------------------------
\* execute

\* The bytes a child of execute() writes, and the character each decodes to
\* (the output is ASCII text).
Char == (10 :> "\n" @@ 97 :> "a")
Bytes == DOMAIN Char
BytesUpTo(n) == UNION { [1..k -> Bytes] : k \in 0..n }

\* What subprocess.run(args, capture_output=True) gets from its child.
Completed(returncode, stdout, stderr) ==
    [returncode |-> returncode, stdout |-> stdout, stderr |-> stderr]

\* Line 64: result.stdout.decode()
decode(bytes) == [i \in 1..Len(bytes) |-> Char[bytes[i]]]

RECURSIVE rstrip_newlines(_)
\* Mutant of strip_newline: every trailing newline is removed.
rstrip_newlines(output) ==
    IF output # <<>> /\ output[Len(output)] = "\n"
    THEN rstrip_newlines(SubSeq(output, 1, Len(output) - 1))
    ELSE output

\* Lines 65-66: if output.endswith("\n"): output = output[:-1]
strip_newline(output) ==
    IF output # <<>> /\ output[Len(output)] = "\n"
    THEN SubSeq(output, 1, Len(output) - 1)
    ELSE output

\* Lines 63-67: check=True raises CalledProcessError(returncode, args,
\* stdout, stderr) on a non-zero return code; otherwise the decoded stdout
\* is returned without its trailing newline.
execute(args, child) ==
    IF child.returncode # 0
    THEN CalledProcessError([args |-> args, returncode |-> <<child.returncode>>],
                            child.stdout, child.stderr)
    ELSE [kind |-> "returned", value |-> strip_newline(decode(child.stdout))]

\* The calls of execute() checked on their own.
ExecuteCalls ==
    { [args |-> args, child |-> Completed(code, out, err), spawned |-> 0, outcome |-> None] :
        args \in {<<"which", "zsh">>, <<"sudo", "-n", "true">>},
        code \in ExitCodes, out \in BytesUpTo(MaxOut), err \in BytesUpTo(1) }

InitExecute ==
    /\ jobs = <<>>
    /\ pc = "execute"
    /\ call \in { <<c>> : c \in ExecuteCalls }
    /\ Fresh

\* Lines 63-67: one subprocess.run, then the return or the raise.
Execute ==
    /\ pc = "execute"
    /\ LET outcome == execute(call[1].args, call[1].child)
       IN /\ call' = <<[call[1] EXCEPT !.spawned = @ + 1, !.outcome = <<outcome>>]>>
          /\ pc' = IF outcome.kind = "returned" THEN "returned" ELSE "raised"
    /\ UNCHANGED <<jobs, tasks, current_task, text, process, pipe, written, thread,
                   exc, error, started, sudo_calls, exit_code, present, path_file>>

NextExecute == Execute

SpecExecute == InitExecute /\ [][NextExecute]_vars

----------------------------------------------------------------------------
\* main and ensure_sudo

\* Lines 43-50: the jobs of main are the requirement jobs, of which the pip
\* job may have no command, followed by the four fixed jobs, which all have
\* commands: a job list of main ends with a job that has a command.
MainJobLists == { js \in JobLists : js # <<>> /\ js[Len(js)].commands # <<>> }

\* Line 52: main has built its jobs and calls ensure_sudo.
InitMain ==
    /\ jobs \in MainJobLists
    /\ pc = "ensure_sudo"
    /\ call = None
    /\ Fresh

\* `sudo true` writes nothing; it ends with any exit code.
SudoRuns == { Completed(code, <<>>, <<>>) : code \in ExitCodes }

SudoCall(args, child) == [cmd |-> args, returncode |-> child.returncode]

\* Lines 199-201: execute("sudo", "-n", "true"); CalledProcessError is caught.
EnsureSudoProbe ==
    /\ pc = "ensure_sudo"
    /\ \E child \in SudoRuns :
          LET args == <<"sudo", "-n", "true">>
              outcome == execute(args, child)
          IN /\ sudo_calls' = Append(sudo_calls, SudoCall(args, child))
             /\ pc' = IF outcome.kind = "CalledProcessError" THEN "except" ELSE "start"
    /\ UNCHANGED <<jobs, tasks, current_task, text, process, pipe, written, thread,
                   exc, error, started, exit_code, call, present, path_file>>

\* Mutant of EnsureSudoPrompt: a failure of the second call is swallowed too.
EnsureSudoPromptIgnored ==
    /\ pc = "except"
    /\ \E child \in SudoRuns :
          sudo_calls' = Append(sudo_calls, SudoCall(<<"sudo", "true">>, child))
    /\ pc' = "start"
    /\ UNCHANGED <<jobs, tasks, current_task, text, process, pipe, written, thread,
                   exc, error, started, exit_code, call, present, path_file>>

\* Line 202: execute("sudo", "true") in the handler; its failure leaves
\* ensure_sudo and main.
EnsureSudoPrompt ==
    /\ pc = "except"
    /\ \E child \in SudoRuns :
          LET args == <<"sudo", "true">>
              outcome == execute(args, child)
          IN /\ sudo_calls' = Append(sudo_calls, SudoCall(args, child))
             /\ IF outcome.kind = "CalledProcessError"
                THEN pc' = "raised" /\ error' = outcome
                ELSE pc' = "start" /\ UNCHANGED error
    /\ UNCHANGED <<jobs, tasks, current_task, text, process, pipe, written, thread,
                   exc, started, exit_code, call, present, path_file>>

\* Line 55: run_jobs_display returned; main prints "Done!" and the program
\* ends with exit code 0.
PrintDone ==
    /\ pc = "done"
    /\ pc' = "Done!"
    /\ exit_code' = <<0>>
    /\ UNCHANGED <<jobs, tasks, current_task, text, process, pipe, written, thread,
                   exc, error, started, sudo_calls, call, present, path_file>>

\* Mutant of Abort: the exception is swallowed and main goes on to its end.
AbortSwallowed ==
    /\ pc = "raised"
    /\ pc' = "Done!"
    /\ exit_code' = <<0>>
    /\ UNCHANGED <<jobs, tasks, current_task, text, process, pipe, written, thread,
                   exc, error, started, sudo_calls, call, present, path_file>>

\* Lines 435-436: an exception that leaves main ends the program with exit
\* code 1.
Abort ==
    /\ pc = "raised"
    /\ pc' = "exited"
    /\ exit_code' = <<1>>
    /\ UNCHANGED <<jobs, tasks, current_task, text, process, pipe, written, thread,
                   exc, error, started, sudo_calls, call, present, path_file>>

NextMain ==
    \/ EnsureSudoProbe
    \/ EnsureSudoPrompt
    \/ Next
    \/ PrintDone
    \/ Abort

SpecMain == InitMain /\ [][NextMain]_vars

----------------------------------------------------------------------------
\* get_requirements_install_jobs
\*
\* A requirements file is the list of its lines, as read_text().splitlines()
\* gives it; a line is the sequence of its characters.  A command is its
\* fixed tokens and the requirement it ends with, None when it has none.

Whitespace == {" ", "\t"}

\* The lines a requirements file is made of.
ReqLines ==
    { <<"b", "l", "a", "c", "k">>,
      <<"r", "u", "f", "f">>,
      <<"#", " ", "r", "u", "f", "f">>,
      <<" ", "#", " ", "x">> }

ReqFiles == UNION { [1..k -> ReqLines] : k \in 0..MaxReqLines }

RECURSIVE lstrip(_)
lstrip(r) == IF r # <<>> /\ Head(r) \in Whitespace THEN lstrip(Tail(r)) ELSE r

RECURSIVE rstrip(_)
rstrip(r) ==
    IF r # <<>> /\ r[Len(r)] \in Whitespace THEN rstrip(SubSeq(r, 1, Len(r) - 1)) ELSE r

\* str.strip()
str_strip(r) == rstrip(lstrip(r))

\* str.startswith("#")
startswith_hash(r) == r # <<>> /\ Head(r) = "#"

KeptUnstripped(r) == ~startswith_hash(r)
\* Mutant of read_requirements: the line is tested as it is, not stripped.
read_requirements_unstripped(lines) == SelectSeq(lines, KeptUnstripped)

Kept(r) == ~startswith_hash(str_strip(r))
\* Line 209: the lines r with not r.strip().startswith("#")
read_requirements(lines) == SelectSeq(lines, Kept)

Command(tokens, requirement) == [tokens |-> tokens, requirement |-> requirement]

\* Lines 253-269
get_apt_requirement_install_commands(requirements) ==
    << Command(<<"sudo", "apt-get", "update", "-y">>, None),
       Command(<<"sudo", "apt-get", "upgrade", "-y">>, None) >>
    \o [i \in 1..Len(requirements) |->
          Command(<<"sudo", "apt-get", "install", "-y", "-qq", "-o=Dpkg::Use-Pty=0">>,
                  <<requirements[i]>>)]

\* Lines 278-297
get_brew_requirement_install_commands(requirements) ==
    << Command(<<"bash", "-c", "bash -c \"export NONINTERACTIVE=1; $(curl ...)\"">>, None),
       Command(<<"/home/linuxbrew/.linuxbrew/bin/brew", "upgrade">>, None) >>
    \o [i \in 1..Len(requirements) |->
          Command(<<"/home/linuxbrew/.linuxbrew/bin/brew", "install">>, <<requirements[i]>>)]

\* Line 306
get_pip_requirement_install_commands(requirements) ==
    [i \in 1..Len(requirements) |->
        Command(<<"sys.executable", "-m", "pip", "install", "-U">>, <<requirements[i]>>)]

\* Lines 315-317
get_snap_requirement_install_commands(requirements) ==
    << Command(<<"sudo", "snap", "refresh">>, None) >>
    \o [i \in 1..Len(requirements) |->
          Command(<<"sudo", "snap", "install", "--classic">>, <<requirements[i]>>)]

\* Lines 216-221
REQUIREMENTS ==
    << [package_manager |-> "apt", filename |-> "apt.txt"],
       [package_manager |-> "brew", filename |-> "brew.txt"],
       [package_manager |-> "pip", filename |-> "pip.txt"],
       [package_manager |-> "snap", filename |-> "snap.txt"] >>

\* The third column of REQUIREMENTS: get_cmds_func(requirements)
get_cmds_func(package_manager, requirements) ==
    CASE package_manager = "apt" -> get_apt_requirement_install_commands(requirements)
      [] package_manager = "brew" -> get_brew_requirement_install_commands(requirements)
      [] package_manager = "pip" -> get_pip_requirement_install_commands(requirements)
      [] package_manager = "snap" -> get_snap_requirement_install_commands(requirements)

\* str.title() of the four package manager names
title(package_manager) ==
    CASE package_manager = "apt" -> "Apt"
      [] package_manager = "brew" -> "Brew"
      [] package_manager = "pip" -> "Pip"
      [] package_manager = "snap" -> "Snap"

\* Lines 233-241: the job of a requirements file.
RequirementsJob(package_manager, requirements) ==
    [title |-> title(package_manager) \o " requirements",
     commands |-> get_cmds_func(package_manager, requirements),
     finish_message |-> <<Len(requirements),
                          " package" \o (IF Len(requirements) = 1 THEN "" ELSE "s")
                          \o " installed">>]

\* Line 223: jobs = [], the loop not entered yet.
InitReq ==
    /\ jobs = <<>>
    /\ pc = "requirements"
    /\ call = None
    /\ Fresh

\* Lines 224-242: one turn of the loop over REQUIREMENTS.  The file is
\* missing (None) or holds some lines.
RequirementsEntry ==
    /\ pc = "requirements"
    /\ Len(present) < Len(REQUIREMENTS)
    /\ \E file \in {None} \cup { <<f>> : f \in ReqFiles } :
          /\ present' = Append(present, file # None)
          /\ path_file' = file
          /\ jobs' = IF file = None
                     THEN jobs
                     ELSE Append(jobs,
                                 RequirementsJob(REQUIREMENTS[Len(present) + 1].package_manager,
                                                 read_requirements(file[1])))
    /\ UNCHANGED <<pc, tasks, current_task, text, process, pipe, written, thread,
                   exc, error, started, sudo_calls, exit_code, call>>

\* Line 244: return jobs
ReturnJobs ==
    /\ pc = "requirements"
    /\ Len(present) = Len(REQUIREMENTS)
    /\ pc' = "returned"
    /\ UNCHANGED <<jobs, tasks, current_task, text, process, pipe, written, thread,
                   exc, error, started, sudo_calls, exit_code, call, present, path_file>>

NextReq ==
    \/ RequirementsEntry
    \/ ReturnJobs

SpecReq == InitReq /\ [][NextReq]_vars

\* The run of a single job, for the properties of one execute_display call.
InitLive == Init /\ Len(jobs) = 1

\* The threads of the interpreter are scheduled fairly: a reader thread that
\* can read or append does so, and the main thread takes a step it can
\* take.  Neither the child nor the interruption of the wait is forced.
Fairness ==
    /\ \A s \in Streams : WF_vars(ReadLine(s)) /\ WF_vars(AppendLine(s))
    /\ WF_vars(Wait)
    /\ WF_vars(JoinStdout)
    /\ WF_vars(JoinStderr)
    /\ WF_vars(CheckReturncode)

SpecLive == InitLive /\ [][Next]_vars /\ Fairness

----------------------------------------------------------------------------
\* Vocabulary of the properties

Flat == Flatten(jobs)
JobIds == 1..Len(jobs)
IsPrefix(s, t) == Len(s) <= Len(t) /\ s = SubSeq(t, 1, Len(s))

\* The main thread is inside execute_display, before its outcome.
InFlight == pc \in {"wait", "join_stdout", "join_stderr"}
\* execute_display has been called at least once and is past its joins.
PastJoins == process.state # "none" /\ ~InFlight
\* execute_display has reported its outcome: it returned or it raised.
Reported == PastJoins /\ pc # "returncode"
\* run_jobs_display has ended.
Terminated == pc \in {"done", "raised"}
\* No command failed and no wait was interrupted.
AllSucceeded == error.kind \notin {"CalledProcessError", "KeyboardInterrupt"}
\* The command handed to execute_display last.
LastStarted == started[Len(started)]
\* The jobs whose completed count is less than their total.
Pending == { j \in JobIds : tasks[j].completed < tasks[j].total }

----------------------------------------------------------------------------
\* C1: fail-fast.  Once a command has exited non-zero, the run has ended
\* with CalledProcessError for that command, the commands handed to
\* execute_display are the flattened sequence up to and including the failed
\* one and nothing after it, and neither the job counters nor the Total
\* counter have been advanced for it.
C1_FailFast ==
    /\ (Reported /\ exc = "none" /\ Failed(process)) => error.kind = "CalledProcessError"
    /\ error.kind = "CalledProcessError" =>
          /\ pc = "raised"
          /\ error.cmd = <<LastStarted>>
          /\ started = SubSeq(Flat, 1, Len(started))
          /\ tasks[total_task_id].completed = Len(started) - 1
          /\ SumCompleted(tasks, Len(jobs)) = Len(started) - 1

\* A command in the middle of the flattened sequence has failed.
C1_Witness ==
    /\ error.kind = "CalledProcessError"
    /\ Len(started) >= 2
    /\ Len(started) < Len(Flat)

\* C2 (as claimed): for every non-empty job list, a run in which no command
\* fails ends normally with the Total counter at the number of commands and
\* every job's completed counter at its total.
C2_AllSucceedCompletes ==
    (jobs # <<>> /\ Terminated /\ AllSucceeded) =>
        /\ pc = "done"
        /\ tasks[total_task_id].completed = Len(Flat)
        /\ \A j \in JobIds : tasks[j].completed = tasks[j].total

\* C3: the commands handed to execute_display are always a prefix of the
\* flattened sequence, and a command of a job has been started only when
\* every job before it has completed all of its commands.
C3_ExecutionOrder ==
    /\ IsPrefix(started, Flat)
    /\ \A i \in 1..Len(started) :
          \A j \in 1..(started[i][1] - 1) : tasks[j].completed = tasks[j].total

\* A run over two jobs of two commands each has started all four.
C3_Witness ==
    /\ Len(jobs) = 2
    /\ Len(started) = 4
    /\ pc = "done"

\* C4 (as claimed): at the loop condition, the loop ends iff every job's
\* completed count has reached its total; when the body runs, some job has
\* completed < total and the task picked is the first such job.
C4_CurrentJob ==
    /\ pc = "loop" =>
          (progress_finished(tasks) <=> \A j \in JobIds : tasks[j].completed = tasks[j].total)
    /\ pc = "select" => Pending # {} /\ Unfinished(tasks) # {}
    /\ pc = "execute_display" =>
          current_task \in Pending /\ \A j \in Pending : current_task <= j

\* C5 (as claimed): a job with zero commands is never picked to index a
\* command out of its empty list, and a run holding such a job in which no
\* command fails still ends with every job complete.
C5_ZeroCommandJob ==
    /\ error.kind # "IndexError"
    /\ ((\E j \in JobIds : jobs[j].commands = <<>>) /\ Terminated /\ AllSucceeded) =>
          /\ pc = "done"
          /\ \A j \in JobIds : tasks[j].completed = tasks[j].total

\* C6: both buffers are empty when a command is about to be started; while
\* the command runs each buffer holds lines of that command only, a prefix
\* of what it wrote to that stream; when execute_display returns each buffer
\* holds exactly what the command wrote to that stream.
C6_Buffers ==
    /\ pc = "execute_display" => \A s \in Streams : text[s] = <<>>
    /\ (InFlight \/ pc \in {"returncode", "set_length"}) =>
          \A s \in Streams :
              /\ IsPrefix(text[s], written[s])
              /\ \A i \in 1..Len(text[s]) : text[s][i][1] = LastStarted
    /\ pc = "set_length" => \A s \in Streams : text[s] = written[s]

\* The second command is about to start after a first one that wrote to
\* both streams.
C6_Witness ==
    /\ pc = "execute_display"
    /\ Len(started) >= 1
    /\ \A s \in Streams : written[s] # <<>>

\* C7: whenever execute_display is past its finally block (about to test
\* the return code, returned, or raised), both reader threads have ended,
\* both pipes are drained and the child has exited.
C7_ReadersJoined ==
    PastJoins =>
        /\ \A s \in Streams : thread[s].state = "done" /\ pipe[s] = <<>>
        /\ process.state = "exited"

\* execute_display raised for a failed command that wrote to both streams.
C7_Witness ==
    /\ pc = "raised"
    /\ error.kind = "CalledProcessError"
    /\ \A s \in Streams : Len(written[s]) = MaxLines

\* C8: when the interruption of the wait has been re-raised, the child is
\* no longer running (it was sent SIGTERM, or had already exited and was
\* reaped) and both reader threads have ended.
C8_Cancellation ==
    error.kind = "KeyboardInterrupt" =>
        /\ pc = "raised"
        /\ process.state = "exited"
        /\ process.sigterm \/ process.returncode # None
        /\ \A s \in Streams : thread[s].state = "done"

\* The wait was interrupted while the child was running, after it had
\* written to both streams.
C8_Witness ==
    /\ error.kind = "KeyboardInterrupt"
    /\ process.sigterm
    /\ \A s \in Streams : written[s] # <<>>

\* C9: when execute_display has returned or raised, each buffer holds
\* exactly the lines the child wrote to its stream, in the order written.
C9_AllLinesInOrder ==
    (pc = "set_length" \/ error.kind \in {"CalledProcessError", "KeyboardInterrupt"}) =>
        \A s \in Streams :
            /\ text[s] = written[s]
            /\ \A i \in 1..Len(text[s]) : text[s][i] = <<LastStarted, s, i>>

\* execute_display returned for a child that wrote several lines to each
\* stream.
C9_Witness ==
    /\ pc = "set_length"
    /\ \A s \in Streams : Len(text[s]) >= 2

\* C10: once execute_display has reported the outcome of a child that was
\* waited for, a non-zero exit code has raised CalledProcessError carrying
\* the command, that exit code and everything the child wrote to each
\* stream, and exit code 0 has raised nothing.
C10_ProcessFailure ==
    /\ (Reported /\ exc = "none") =>
          (process.status # <<0>> <=> error.kind = "CalledProcessError")
    /\ error.kind = "CalledProcessError" =>
          /\ error.cmd = <<LastStarted>>
          /\ error.returncode = process.status
          /\ error.returncode # <<0>>
          /\ error.output = written["stdout"]
          /\ error.stderr = written["stderr"]

\* A failure that carries a stdout different from its stderr.
C10_Witness ==
    /\ error.kind = "CalledProcessError"
    /\ Len(error.output) = MaxLines
    /\ error.stderr = <<>>

\* C15: an empty job list makes run_jobs_display raise (ValueError from
\* max()) with no task created and no command handed to execute_display.
C15_EmptyJobList ==
    (jobs = <<>> /\ pc # "start") =>
        /\ pc = "raised"
        /\ error.kind = "ValueError"
        /\ tasks = <<>>
        /\ started = <<>>
        /\ process.state = "none"

\* run_jobs_display has raised on the empty job list.
C15_Witness ==
    /\ jobs = <<>>
    /\ pc = "raised"

\* The alive reader threads.
Alive == { s \in Streams : thread[s].state \in {"readline", "append"} }
\* Every total of a task list.
Totals(ts) == [id \in 1..Len(ts) |-> ts[id].total]

\* C16: the step that advances the job counter adds 1 to the current job's
\* completed count, which was below its total, and changes no other task;
\* the step that advances the Total task adds 1 to it and changes no other
\* task; no other step changes a counter, no step changes a total, and the
\* Total counter never decreases.
C16_AdvanceFrame ==
    [][ tasks # <<>> =>
          /\ Totals(tasks') = Totals(tasks)
          /\ tasks'[total_task_id].completed >= tasks[total_task_id].completed
          /\ pc = "advance" =>
                /\ current_task \in JobIds
                /\ tasks[current_task].completed < tasks[current_task].total
                /\ ~tasks[current_task].finished
                /\ tasks'[current_task].completed = tasks[current_task].completed + 1
                /\ \A id \in 1..Len(tasks) \ {current_task} : tasks'[id] = tasks[id]
          /\ pc = "advance_total" =>
                /\ tasks'[total_task_id].completed = tasks[total_task_id].completed + 1
                /\ \A id \in JobIds : tasks'[id] = tasks[id]
          /\ pc \notin {"advance", "advance_total"} =>
                \A id \in 1..Len(tasks) : tasks'[id].completed = tasks[id].completed
      ]_vars

\* Two commands of the second job have been counted.
C16_Witness ==
    /\ pc = "loop"
    /\ Len(jobs) = 2
    /\ tasks[2].completed = 2
    /\ tasks[total_task_id].completed = 4

\* C17: once the tasks exist, every counter is between 0 and its total, the
\* Total task's total is the sum of the job totals, and the Total counter
\* equals the sum of the job counters except between the two advances of
\* one iteration, where it is exactly one behind.
C17_RunState ==
    tasks # <<>> =>
        /\ Len(tasks) = Len(jobs) + 1
        /\ \A id \in 1..Len(tasks) :
              0 <= tasks[id].completed /\ tasks[id].completed <= tasks[id].total
        /\ \A j \in JobIds : tasks[j].total = Len(jobs[j].commands)
        /\ tasks[total_task_id].total = SumTotals(tasks, Len(jobs))
        /\ IF pc = "advance_total"
           THEN SumCompleted(tasks, Len(jobs)) = tasks[total_task_id].completed + 1
           ELSE SumCompleted(tasks, Len(jobs)) = tasks[total_task_id].completed

\* Between the two advances of the last iteration of a two-job run.
C17_Witness ==
    /\ pc = "advance_total"
    /\ Len(jobs) = 2
    /\ SumCompleted(tasks, Len(jobs)) = 4
    /\ tasks[total_task_id].completed = 3

\* C18: reader threads are alive and the child is running only while the
\* main thread is inside execute_display for that command; when the buffers
\* are about to be reset and when the next child is about to be created, the
\* child and readers of the command before have ended.
C18_OneCommandInFlight ==
    /\ (Alive # {} \/ process.state = "running") => InFlight
    /\ pc \in {"set_length", "execute_display"} =>
          /\ Alive = {}
          /\ process.state \in {"none", "exited"}
          /\ \A s \in Streams : pipe[s] = <<>>

\* The second command is about to be created; the first one's readers have
\* appended to both buffers and ended.
C18_Witness ==
    /\ pc = "execute_display"
    /\ Len(started) = 1
    /\ \A s \in Streams : thread[s].state = "done" /\ Len(written[s]) = MaxLines

\* C19: once the child has exited while the main thread is inside
\* execute_display, both reader threads end and execute_display returns or
\* raises.
C19_BoundedByChild ==
    (process.state = "exited" /\ (InFlight \/ pc = "returncode"))
        ~> (pc \in {"set_length", "raised"} /\ Alive = {})

\* The child has exited, the main thread still waits for it, and a reader
\* still has a line to read.
C19_Witness ==
    /\ process.state = "exited"
    /\ pc = "wait"
    /\ pipe["stdout"] # <<>>
    /\ thread["stderr"].state = "append"

\* The text of the stdout the child of the call wrote.
StdoutText == [i \in 1..Len(call[1].child.stdout) |-> Char[call[1].child.stdout[i]]]

\* C13: a finished call of execute() has spawned one child; on exit code 0
\* it returned the stdout text, less exactly one trailing newline when the
\* text ends with one; on a non-zero exit code it raised CalledProcessError
\* with the command, the exit code, stdout and stderr.
C13_Execute ==
    (call # None /\ pc # "execute") =>
        LET c == call[1]
            outcome == c.outcome[1]
        IN /\ c.spawned = 1
           /\ c.child.returncode = 0 =>
                 /\ pc = "returned"
                 /\ outcome.kind = "returned"
                 /\ IF StdoutText # <<>> /\ StdoutText[Len(StdoutText)] = "\n"
                    THEN outcome.value \o <<"\n">> = StdoutText
                    ELSE outcome.value = StdoutText
           /\ c.child.returncode # 0 =>
                 /\ pc = "raised"
                 /\ outcome.kind = "CalledProcessError"
                 /\ outcome.cmd = c.args
                 /\ outcome.returncode = <<c.child.returncode>>
                 /\ outcome.output = c.child.stdout
                 /\ outcome.stderr = c.child.stderr

\* A call returned for a stdout that ends with two newlines.
C13_Witness ==
    /\ call # None
    /\ pc = "returned"
    /\ Len(StdoutText) = 3
    /\ StdoutText[2] = "\n"
    /\ StdoutText[3] = "\n"

\* Every command of every job was run and counted as completed.
AllCommandsSucceeded ==
    /\ tasks # <<>>
    /\ started = Flat
    /\ tasks[total_task_id].completed = Len(Flat)

\* C11: the program has exit code 0 exactly when it reached "Done!"; when
\* it has ended, it reached "Done!" exactly when every command of every job
\* ran and succeeded; a failed command ends it with a non-zero exit code,
\* "Done!" not reached.
C11_ExitCode ==
    /\ exit_code = <<0>> <=> pc = "Done!"
    /\ exit_code # None <=> pc \in {"Done!", "exited"}
    /\ pc \in {"Done!", "exited"} => (pc = "Done!" <=> AllCommandsSucceeded)
    /\ pc = "Done!" => error.kind = "none" /\ process.status = <<0>>
    /\ error.kind = "CalledProcessError" => pc \in {"raised", "exited"}
    /\ (error.kind # "none" /\ exit_code # None) => exit_code # <<0>>

\* The program has ended on the failure of a command that was not the first.
C11_Witness ==
    /\ pc = "exited"
    /\ error.kind = "CalledProcessError"
    /\ Len(started) >= 2

\* C12: the first call of ensure_sudo is the non-interactive probe; once
\* ensure_sudo is over, the interactive call was made, once, exactly when
\* the probe failed; a job command has been started only after the last
\* call of ensure_sudo succeeded, and when the interactive call failed too
\* nothing of the run has started.
C12_EnsureSudo ==
    /\ Len(sudo_calls) <= 2
    /\ pc # "ensure_sudo" =>
          /\ Len(sudo_calls) >= 1
          /\ sudo_calls[1].cmd = <<"sudo", "-n", "true">>
    /\ pc \notin {"ensure_sudo", "except"} =>
          /\ Len(sudo_calls) = 2 <=> sudo_calls[1].returncode # 0
          /\ Len(sudo_calls) = 2 => sudo_calls[2].cmd = <<"sudo", "true">>
    /\ (started # <<>> \/ tasks # <<>>) =>
          /\ sudo_calls # <<>>
          /\ sudo_calls[Len(sudo_calls)].returncode = 0
    /\ (Len(sudo_calls) = 2 /\ sudo_calls[2].returncode # 0) =>
          /\ pc \in {"raised", "exited"}
          /\ error.kind = "CalledProcessError"
          /\ error.cmd = <<"sudo", "true">>
          /\ started = <<>>
          /\ tasks = <<>>

\* The probe failed, the interactive call succeeded, and a job command has
\* been started.
C12_Witness ==
    /\ Len(sudo_calls) = 2
    /\ sudo_calls[2].returncode = 0
    /\ started # <<>>

\* The titles of the jobs of the four files, in the order of REQUIREMENTS.
JobTitles == <<"Apt requirements", "Brew requirements", "Pip requirements",
               "Snap requirements">>
RECURSIVE TitlesOfPresent(_)
\* The titles of the files found so far, in order.
TitlesOfPresent(n) ==
    IF n = 0 THEN <<>>
    ELSE TitlesOfPresent(n - 1) \o (IF present[n] THEN <<JobTitles[n]>> ELSE <<>>)

\* The requirement each install command of a job ends with, in order.
HasRequirement(c) == c.requirement # None
Installed(job) ==
    LET cs == SelectSeq(job.commands, HasRequirement)
    IN [i \in 1..Len(cs) |-> cs[i].requirement[1]]

\* A line whose first character is '#'.
StartsWithHash(line) == line # <<>> /\ line[1] = "#"
\* A line whose first character after leading whitespace is '#'.
IsComment(line) ==
    \E i \in 1..Len(line) :
        line[i] = "#" /\ \A k \in 1..(i - 1) : line[k] \in Whitespace
NotStartsWithHash(line) == ~StartsWithHash(line)
NotComment(line) == ~IsComment(line)

\* One job per file found, none for a missing file, in the fixed order.
OneJobPerFile ==
    /\ Len(jobs) <= Len(present)
    /\ [j \in 1..Len(jobs) |-> jobs[j].title] = TitlesOfPresent(Len(present))

\* Only pip.txt exists and holds the lines black and ruff: one job, "Pip
\* requirements", of the two pip install commands.
PipExample ==
    (present = <<FALSE, FALSE, TRUE>>
        /\ path_file = << << <<"b", "l", "a", "c", "k">>, <<"r", "u", "f", "f">> >> >>) =>
        /\ Len(jobs) = 1
        /\ jobs[1].title = "Pip requirements"
        /\ Len(jobs[1].commands) = 2
        /\ Installed(jobs[1]) = << <<"b", "l", "a", "c", "k">>, <<"r", "u", "f", "f">> >>
        /\ \A i \in 1..2 :
              jobs[1].commands[i].tokens = <<"sys.executable", "-m", "pip", "install", "-U">>

\* C14 (as claimed): one job per file found, in the fixed order; the install
\* commands of the job of the file read last are one per line that does not
\* start with '#'; the pip.txt example.
C14_AsClaimed ==
    /\ OneJobPerFile
    /\ (path_file # None /\ jobs # <<>>) =>
          Installed(jobs[Len(jobs)]) = SelectSeq(path_file[1], NotStartsWithHash)
    /\ PipExample

\* C14 (amended): as claimed, with the lines ignored being those whose first
\* character after leading whitespace is '#'.
C14_RequirementsJobs ==
    /\ OneJobPerFile
    /\ (path_file # None /\ jobs # <<>>) =>
          Installed(jobs[Len(jobs)]) = SelectSeq(path_file[1], NotComment)
    /\ PipExample

\* The run over a directory that holds only pip.txt, with black and ruff,
\* has returned its one job.
C14_Witness ==
    /\ pc = "returned"
    /\ present = <<FALSE, FALSE, TRUE, FALSE>>
    /\ Len(jobs) = 1
    /\ Installed(jobs[1]) = << <<"b", "l", "a", "c", "k">>, <<"r", "u", "f", "f">> >>

====
